---------------------------- MODULE Spec2Model ----------------------------
(***************************************************************************)
(* Model of skyrl_train/inference_engines/ray_wrapped_inference_engine.py: *)
(*   - create_ray_wrapped_inference_engines: pool construction on a Ray    *)
(*     cluster (placement group, engine actors, facades, initial sleep);   *)
(*   - RayWrappedInferenceEngine: the facade that forwards every call to   *)
(*     the remote engine actor bound at construction.                      *)
(* and of the dispatch calls of tests/gpu/test_megatron_worker.py.         *)
(* The engine actors themselves (VLLMRayActor, SGLangRayActor), the        *)
(* weight-sync coordinator, the training side's dispatcher and the cluster *)
(* scheduler live outside the modelled files; their behaviour is taken     *)
(* from the design document and marked as such.                            *)
(***************************************************************************)
EXTENDS Integers, Sequences, FiniteSets, TLC

(***************************************************************************)
(* Bounds of the model.                                                    *)
(***************************************************************************)
MaxReplicas == 2
MaxTP == 2
MaxSeed == 1
NumWeights == 2
MaxCycles == 1
MaxCalls == 3
MaxGenerates == 1
MaxFailures == 1

(***************************************************************************)
(* Program constants.                                                      *)
(***************************************************************************)
PgReadyTimeout == 30

\* GPU/CPU amounts are Python numbers (1, 0, 0.2); kept exact as fractions.
Frac(n, d) == [num |-> n, den |-> d]
One == Frac(1, 1)
Zero == Frac(0, 1)
\* Mutant: the colocated share is a tenth of a GPU.
HybridShareTenth == Frac(1, 10)

HybridShare == Frac(1, 5)
Unbound == Frac(0, 0)

None == "None"

\* A placement-group reference: Python None, the caller's group, or a group
\* this call created (id: its position in the cluster's request list).
NoPG == [kind |-> "None", id |-> 0]
CallerPG == [kind |-> "caller", id |-> 0]
CreatedPG(n) == [kind |-> "created", id |-> n]

\* Optional[List[int]]
NoList == [some |-> FALSE, list |-> <<>>]
SomeList(l) == [some |-> TRUE, list |-> l]

\* version.parse("0.8.3"): a release triple, compared component-wise.
MinVllmVersion == <<0, 8, 3>>
InstalledVersions == {<<0, 7, 9>>, <<0, 8, 2>>, <<0, 8, 3>>, <<0, 10, 0>>}

VersionGE(v, w) ==
    \/ v[1] > w[1]
    \/ v[1] = w[1] /\ v[2] > w[2]
    \/ v[1] = w[1] /\ v[2] = w[2] /\ v[3] >= w[3]

Backends == {"vllm", "sglang", "trtllm"}

VARIABLES
    args,                     \* the call's arguments and the installed vllm
    pc,                       \* position in create_ray_wrapped_inference_engines
    error,                    \* the exception the call raised, or None
    num_gpus,                 \* local: scheduler request per actor
    distributed_executor_backend,
    use_hybrid_engine,
    shared_pg,                \* local: the placement group actors go into
    i,                        \* loop variable of the creation loop
    inference_engine_actors,  \* local: list of actor handles
    engines,                  \* local / returned: list of facades
    sleep_refs,               \* local: futures of the initial sleep calls
    placement_groups,         \* cluster: placement groups requested so far
    remote_tasks,             \* cluster: remote tasks submitted so far
    actors,                   \* cluster: engine actors created so far
    worker_env,               \* cluster: CUDA_VISIBLE_DEVICES of the task worker
    proc,                     \* cluster: each engine actor's process state
    pending,                  \* facade calls issued and not yet completed
    last_done,                \* the facade call completed last, as its caller saw it
    issued,                   \* number of calls issued by the pool's users
    teardown_acked,           \* per replica: the caller holds a teardown ack
    last_toggle,              \* per replica: the last completed sleep / wake_up
    trace,                    \* per replica: the numbered calls its engine served
    sync,                     \* the weight-sync coordinator's state
    dispatch,                 \* a training actor group and its dispatch in flight
    device                    \* one GPU bundle of a shared placement group

\* Variables neither pool construction nor a facade call touches.
sideVars == <<dispatch, device>>

ctorVars == <<args, pc, error, num_gpus, distributed_executor_backend,
              use_hybrid_engine, shared_pg, i, inference_engine_actors,
              engines, sleep_refs, placement_groups, remote_tasks, actors,
              worker_env, sideVars>>

callVars == <<pending, last_done, issued, teardown_acked, last_toggle, trace>>

vars == <<ctorVars, proc, callVars, sync>>

opVars == <<callVars, sync, sideVars>>

planVars == <<num_gpus, distributed_executor_backend, use_hybrid_engine>>
listVars == <<inference_engine_actors, engines, sleep_refs>>
clusterVars == <<placement_groups, remote_tasks, actors, proc, opVars>>

Range(s) == {s[k] : k \in 1..Len(s)}

PyRange(a, b) == [k \in 1..(IF b > a THEN b - a ELSE 0) |-> a + k - 1]

-----------------------------------------------------------------------------
(***************************************************************************)
(* Pool construction.                                                      *)
(***************************************************************************)
ArgSpace ==
    [backend : Backends,
     vllm_version : InstalledVersions,
     num_inference_engines : 0..MaxReplicas,
     tensor_parallel_size : 1..MaxTP,
     shared_pg : {NoPG, CallerPG},
     shared_pg_bundles : 0..(MaxReplicas * MaxTP),
     inference_engine_enable_sleep : BOOLEAN,
     async_engine : BOOLEAN,
     seed : 0..MaxSeed]

\* The number of bundles of a placement group the caller supplies: enough
\* for one bundle per replica, or for one per tensor-parallel rank.
CallerBundles == {MaxReplicas, MaxReplicas * MaxTP}

\* The installed vllm version and async_engine are read for vllm only; a
\* bundle count belongs to a supplied placement group.
Args ==
    {a \in ArgSpace :
        /\ a.backend # "vllm" =>
              a.vllm_version = MinVllmVersion /\ a.async_engine = FALSE
        /\ a.shared_pg = NoPG => a.shared_pg_bundles = 0
        /\ a.shared_pg # NoPG => a.shared_pg_bundles \in CallerBundles}

\* No facade exists before the pool is returned: nothing was called yet.
NoDone ==
    [replica |-> 0, op |-> None, given |-> <<>>,
     call |-> [actor |-> 0, method |-> None, arg |-> <<>>],
     arg |-> <<>>, by |-> None,
     raw |-> [err |-> None, val |-> None],
     after_teardown |-> FALSE,
     overtaken |-> FALSE, epoch |-> 0, result |-> [err |-> None, val |-> None],
     before |-> None, after |-> None]

SyncIdle ==
    [pc |-> "idle", version |-> 0, step |-> 0, results |-> <<>>,
     failed |-> {}, cycles_done |-> 0, faults |-> 0, actor_failed |-> {}]

\* An environment variable of a process: unset, or set to a string.
UnsetEnv == [set |-> FALSE, value |-> ""]
SetEnv(v) == [set |-> TRUE, value |-> v]

\* CUDA_VISIBLE_DEVICES in a worker process before a task runs on it: not
\* set, set to the empty string (a worker without GPUs), or naming devices.
WorkerEnvs == {UnsetEnv, SetEnv(""), SetEnv("0,1")}

\* No training actor group is attached to the pool.
NoDispatch ==
    [actor_infos |-> <<>>, stage |-> "none", mode |-> "none", lens |-> <<>>,
     sent |-> <<>>, refs |-> <<>>, done_order |-> <<>>, results |-> <<>>,
     collected_infos |-> <<>>, collected_results |-> <<>>,
     output |-> [err |-> None, val |-> <<>>]]

\* A bundle nobody has asked for yet.
FreeDevice == [engines |-> 0, training |-> <<0, 0>>, waiting |-> <<0, 0, 0>>]

NoSide == dispatch = NoDispatch /\ device = FreeDevice

NoCalls ==
    /\ pending = {}
    /\ last_done = NoDone
    /\ issued = 0
    /\ teardown_acked = <<>>
    /\ last_toggle = <<>>
    /\ trace = <<>>
    /\ sync = SyncIdle

Init ==
    /\ args \in Args
    /\ pc = "check_backend"
    /\ error = None
    /\ num_gpus = Unbound
    /\ distributed_executor_backend = None
    /\ use_hybrid_engine = FALSE
    /\ shared_pg = args.shared_pg
    /\ i = 0
    /\ inference_engine_actors = <<>>
    /\ engines = <<>>
    /\ sleep_refs = <<>>
    /\ placement_groups = <<>>
    /\ remote_tasks = <<>>
    /\ actors = <<>>
    /\ worker_env \in {[prior |-> e, now |-> e] : e \in WorkerEnvs}
    /\ proc = <<>>
    /\ NoCalls
    /\ NoSide

Raise(e) ==
    /\ pc' = "raised"
    /\ error' = e

\* Mutant: only the last component of the version is compared.
VersionSupportedPatchOnly(v) == v[3] >= MinVllmVersion[3]

\* lines 79-88
VersionSupported(v) == VersionGE(v, MinVllmVersion)

BackendCheck(backend, v) ==
    IF backend = "vllm"
    THEN IF VersionSupported(v) THEN None ELSE "AssertionError"
    ELSE IF backend = "sglang" THEN None ELSE "ValueError"

CheckBackend ==
    /\ pc = "check_backend"
    /\ LET e == BackendCheck(args.backend, args.vllm_version) IN
         IF e = None
         THEN pc' = "get_env" /\ error' = error
         ELSE Raise(e)
    /\ UNCHANGED <<args, worker_env, shared_pg, i, planVars, listVars, clusterVars>>

\* line 91
GetEnv ==
    /\ pc = "get_env"
    /\ remote_tasks' = Append(remote_tasks, "get_all_env_variables")
    /\ pc' = "plan"
    /\ UNCHANGED <<args, worker_env, error, shared_pg, i, planVars, listVars,
                   placement_groups, actors, proc, opVars>>

\* lines 94-100
ExecutorBackend(tp) == IF tp = 1 THEN "uni" ELSE "ray"

UseHybridEngine(pg) == pg # NoPG

\* Mutant: the colocated override of the share is forgotten.
NumGpusNoOverride(tp, hybrid) == IF tp = 1 THEN One ELSE Zero

NumGpus(tp, hybrid) ==
    IF hybrid /\ tp = 1 THEN HybridShare
    ELSE IF tp = 1 THEN One ELSE Zero

Plan ==
    /\ pc = "plan"
    /\ distributed_executor_backend' = ExecutorBackend(args.tensor_parallel_size)
    /\ use_hybrid_engine' = UseHybridEngine(shared_pg)
    /\ num_gpus' = NumGpus(args.tensor_parallel_size, UseHybridEngine(shared_pg))
    /\ pc' = "placement"
    /\ UNCHANGED <<args, worker_env, error, shared_pg, i, listVars, clusterVars>>

\* Mutant: one bundle per replica, whatever the parallel degree.
BundlesPerReplica(n, tp) == [k \in 1..n |-> [GPU |-> 1, CPU |-> 1]]

\* lines 102-105
Bundles(n, tp) == [k \in 1..(n * tp) |-> [GPU |-> 1, CPU |-> 1]]

\* Mutant: a placement group is created whether or not one was supplied.
NeedsOwnPGAlways(hybrid) == TRUE

NeedsOwnPG(hybrid) == ~hybrid

CreatePG ==
    /\ pc = "placement"
    /\ IF NeedsOwnPG(use_hybrid_engine)
       THEN /\ placement_groups' = Append(placement_groups,
                   [bundles |-> Bundles(args.num_inference_engines,
                                        args.tensor_parallel_size),
                    strategy |-> "PACK",
                    ready |-> FALSE,
                    waited |-> 0])
            /\ shared_pg' = CreatedPG(Len(placement_groups) + 1)
            /\ pc' = "pg_wait"
       ELSE /\ UNCHANGED <<placement_groups, shared_pg>>
            /\ pc' = "loop"
    /\ UNCHANGED <<args, worker_env, error, i, planVars, listVars, remote_tasks, actors, proc, opVars>>

\* line 106: get_ray_pg_ready_with_timeout(shared_pg, timeout=30); the cluster
\* either reserves the bundles in time or the wait raises.
WaitPG ==
    /\ pc = "pg_wait"
    /\ \E reserved \in BOOLEAN :
         /\ placement_groups' =
               [placement_groups EXCEPT ![shared_pg.id].ready = reserved,
                                        ![shared_pg.id].waited = PgReadyTimeout]
         /\ IF reserved
            THEN pc' = "loop" /\ error' = error
            ELSE Raise("SchedulingTimeout")
    /\ UNCHANGED <<args, worker_env, shared_pg, i, planVars, listVars, remote_tasks, actors, proc, opVars>>

\* Mutant: the slice starts at the replica index, not at k * tp.
BundleIndicesUnscaled(k, tp) ==
    IF tp > 1 THEN SomeList(PyRange(k, k + tp)) ELSE NoList

\* lines 109-111
BundleIndices(k, tp) ==
    IF tp > 1 THEN SomeList(PyRange(k * tp, (k + 1) * tp)) ELSE NoList

\* Mutant: the actor is pinned to the bundle with the replica's own index.
PinnedBundleUnscaled(k, tp) == k

\* lines 113-117
PinnedBundle(k, tp) == k * tp

SchedulingStrategy(pg, k, tp) ==
    [placement_group |-> pg,
     placement_group_capture_child_tasks |-> TRUE,
     placement_group_bundle_index |-> PinnedBundle(k, tp)]

\* Mutant: the engine is always told it has a whole GPU.
EngineNumGpusWhole(hybrid) == One

\* lines 143, 194
EngineNumGpus(hybrid) == IF hybrid THEN HybridShare ELSE One

\* Mutant: every replica gets the configured seed itself.
ReplicaSeedShared(seed, k) == seed

\* lines 129-134, 175-179
ReplicaSeed(seed, k) == seed + k

\* lines 119-152: actor_class.options(...).remote(...)
VllmActor(k) ==
    [cls |-> IF args.async_engine THEN "AsyncVLLMRayActor" ELSE "VLLMRayActor",
     iteration |-> k,
     num_cpus |-> num_gpus,
     num_gpus |-> num_gpus,
     scheduling_strategy |->
         SchedulingStrategy(shared_pg, k, args.tensor_parallel_size),
     kw_tensor_parallel_size |-> args.tensor_parallel_size,
     kw_seed |-> ReplicaSeed(args.seed, k),
     kw_distributed_executor_backend |-> distributed_executor_backend,
     kw_bundle_indices |-> BundleIndices(k, args.tensor_parallel_size),
     kw_num_gpus |-> EngineNumGpus(use_hybrid_engine),
     kw_enable_sleep |-> args.inference_engine_enable_sleep]

\* lines 170-197: the same handle shape, built inside get_sglang_engine
SglangActor(k) ==
    [cls |-> "SGLangRayActor",
     iteration |-> k,
     num_cpus |-> num_gpus,
     num_gpus |-> num_gpus,
     scheduling_strategy |->
         SchedulingStrategy(shared_pg, k, args.tensor_parallel_size),
     kw_tensor_parallel_size |-> args.tensor_parallel_size,
     kw_seed |-> ReplicaSeed(args.seed, k),
     kw_distributed_executor_backend |-> distributed_executor_backend,
     kw_bundle_indices |-> BundleIndices(k, args.tensor_parallel_size),
     kw_num_gpus |-> EngineNumGpus(use_hybrid_engine),
     kw_enable_sleep |-> args.inference_engine_enable_sleep]

\* The engine process behind a new actor handle. Actor creation is
\* asynchronous: a constructor that fails leaves a dead actor behind a
\* handle that was returned normally.
NewProc(ctor_ok) ==
    [state |-> IF ctor_ok THEN "running" ELSE "dead",
     materialized |-> ctor_ok,
     weights |-> [n \in 1..NumWeights |-> 0],
     cache |-> [entries |-> FALSE, oldest |-> 0],
     comm |-> {},
     joined |-> {}]

\* line 202
AppendActor(list, handle) == Append(list, handle)

\* lines 108-152, 202: one iteration of the loop, vllm
SpawnVllm ==
    /\ pc = "loop"
    /\ i < args.num_inference_engines
    /\ args.backend = "vllm"
    /\ \E ctor_ok \in BOOLEAN :
         /\ actors' = Append(actors, VllmActor(i))
         /\ proc' = Append(proc, NewProc(ctor_ok))
    /\ inference_engine_actors' =
           AppendActor(inference_engine_actors, Len(actors) + 1)
    /\ i' = i + 1
    /\ UNCHANGED <<args, worker_env, pc, error, shared_pg, planVars, engines, sleep_refs,
                   placement_groups, remote_tasks, opVars>>

\* os.environ.get(name, default)
EnvironGet(env, default) == IF env.set THEN env.value ELSE default

\* lines 164-168: the variable's value is read with "" as the default, the
\* variable is set to "0", SGLangRayActor is imported, and the value read is
\* written back.  An import that raises ends the task before the last step.
ImportSglang(env, import_ok) ==
    LET before_cuda_visible_devices == EnvironGet(env, "")
    IN IF import_ok THEN SetEnv(before_cuda_visible_devices) ELSE SetEnv("0")

\* lines 108-117, 153-202: one iteration of the loop, sglang; the actor is
\* created by the remote task get_sglang_engine, whose failure ray.get raises.
SpawnSglang ==
    /\ pc = "loop"
    /\ i < args.num_inference_engines
    /\ args.backend = "sglang"
    /\ remote_tasks' = Append(remote_tasks, "get_sglang_engine")
    /\ \E import_ok \in BOOLEAN, task_ok \in BOOLEAN :
         /\ worker_env' = [prior |-> worker_env.now,
                           now |-> ImportSglang(worker_env.now, import_ok)]
         /\ ~import_ok => ~task_ok
         /\ IF task_ok
            THEN /\ \E ctor_ok \in BOOLEAN :
                      /\ actors' = Append(actors, SglangActor(i))
                      /\ proc' = Append(proc, NewProc(ctor_ok))
                 /\ inference_engine_actors' =
                        AppendActor(inference_engine_actors, Len(actors) + 1)
                 /\ i' = i + 1
                 /\ UNCHANGED <<pc, error>>
            ELSE /\ Raise("RayTaskError")
                 /\ UNCHANGED <<actors, proc, inference_engine_actors, i>>
    /\ UNCHANGED <<args, shared_pg, planVars, engines, sleep_refs,
                   placement_groups, opVars>>

\* lines 21-22: RayWrappedInferenceEngine.__init__
Facade(actor_handle) == [inference_engine_actor |-> actor_handle]

\* Results of remote calls: a value or an error.
Ok(v) == [err |-> None, val |-> v]
Err(e) == [err |-> e, val |-> None]

\* The engine actor's tp_size(): the parallel degree it was constructed with;
\* a dead actor fails every call.
ActorTpSize(a) ==
    IF proc[a].state = "running"
    THEN Ok(actors[a].kw_tensor_parallel_size)
    ELSE Err("EngineUnavailable")

\* lines 24-26: the facade's tp_size property
tp_size(e) == ActorTpSize(e.inference_engine_actor)

\* Mutant: the handles are wrapped in reverse order.
WrapAllReversed(handles) ==
    [k \in 1..Len(handles) |-> [inference_engine_actor |-> handles[Len(handles) + 1 - k]]]

\* line 204
WrapAll(handles) == [k \in 1..Len(handles) |-> Facade(handles[k])]

Wrap ==
    /\ pc = "loop"
    /\ i >= args.num_inference_engines
    /\ engines' = WrapAll(inference_engine_actors)
    /\ pc' = "sleep_check"
    /\ UNCHANGED <<args, worker_env, error, shared_pg, i, planVars,
                   inference_engine_actors, sleep_refs, clusterVars>>

\* Mutant: every replica is sent sleep() twice.
SleepTargetsTwice(es) ==
    [k \in 1..(2 * Len(es)) |-> es[((k - 1) % Len(es)) + 1].inference_engine_actor]

\* lines 206-207
SleepTargets(es) == [k \in 1..Len(es) |-> es[k].inference_engine_actor]

IssueSleep ==
    /\ pc = "sleep_check"
    /\ args.inference_engine_enable_sleep
    /\ sleep_refs' = [k \in 1..Len(SleepTargets(engines)) |->
                         [actor |-> SleepTargets(engines)[k], state |-> "pending"]]
    /\ pc' = "sleep_wait"
    /\ UNCHANGED <<args, worker_env, error, shared_pg, i, planVars,
                   inference_engine_actors, engines, clusterVars>>

SkipSleep ==
    /\ pc = "sleep_check"
    /\ ~args.inference_engine_enable_sleep
    /\ pc' = "return"
    /\ UNCHANGED <<args, worker_env, error, shared_pg, i, planVars, listVars, clusterVars>>

\* The engine actor serves one of the initial sleep calls: a running engine
\* frees its GPU memory and acknowledges, or the call fails; a dead actor
\* fails every call.
ActorInitialSleep ==
    /\ pc = "sleep_wait"
    /\ \E k \in 1..Len(sleep_refs) :
         /\ sleep_refs[k].state = "pending"
         /\ LET a == sleep_refs[k].actor IN
              \E ok \in BOOLEAN :
                 IF ok /\ proc[a].state = "running"
                 THEN /\ proc' = [proc EXCEPT ![a].materialized = FALSE]
                      /\ sleep_refs' = [sleep_refs EXCEPT ![k].state = "ok"]
                 ELSE /\ proc' = proc
                      /\ sleep_refs' = [sleep_refs EXCEPT ![k].state = "error"]
    /\ UNCHANGED <<args, worker_env, pc, error, shared_pg, i, planVars,
                   inference_engine_actors, engines, placement_groups,
                   remote_tasks, actors, opVars>>

\* line 208: ray.get(sleep_refs) returns when every future is resolved and
\* raises if one of them holds an error.
\* Mutant: the wait ends with the first resolved future.
AnyResolved(refs) == \E k \in 1..Len(refs) : refs[k].state # "pending"

AllResolved(refs) == \A k \in 1..Len(refs) : refs[k].state # "pending"

GetSleep ==
    /\ pc = "sleep_wait"
    /\ AllResolved(sleep_refs)
    /\ IF \E k \in 1..Len(sleep_refs) : sleep_refs[k].state = "error"
       THEN Raise("RayError")
       ELSE pc' = "return" /\ error' = error
    /\ UNCHANGED <<args, worker_env, shared_pg, i, planVars, listVars, clusterVars>>

\* line 210
Return ==
    /\ pc = "return"
    /\ pc' = "returned"
    /\ UNCHANGED <<args, worker_env, error, shared_pg, i, planVars, listVars, clusterVars>>

Next ==
    \/ CheckBackend
    \/ GetEnv
    \/ Plan
    \/ CreatePG
    \/ WaitPG
    \/ SpawnVllm
    \/ SpawnSglang
    \/ Wrap
    \/ IssueSleep
    \/ SkipSleep
    \/ ActorInitialSleep
    \/ GetSleep
    \/ Return

Spec == Init /\ [][Next]_vars

-----------------------------------------------------------------------------
(***************************************************************************)
(* The facade: RayWrappedInferenceEngine.  Every method builds one remote  *)
(* call on the bound actor and returns what awaiting that call yields.     *)
(***************************************************************************)
Remote(a, m, x) == [actor |-> a, method |-> m, arg |-> x]

\* lines 28-29
generate(e, input_batch) ==
    Remote(e.inference_engine_actor, "generate", <<input_batch>>)

\* Mutant: wake_up forwards to the method defined below it.
wake_up_as_sleep(e, xs) == Remote(e.inference_engine_actor, "sleep", xs)

\* lines 31-32
wake_up(e, xs) == Remote(e.inference_engine_actor, "wake_up", xs)

\* Mutant: sleep forwards to the method defined above it.
sleep_as_wake_up(e, xs) == Remote(e.inference_engine_actor, "wake_up", xs)

\* lines 34-35
sleep(e, xs) == Remote(e.inference_engine_actor, "sleep", xs)

\* Mutant: group_name and backend change places in the forwarded call.
init_weight_update_communicator_swapped(e, master_addr, master_port, rank_offset, world_size, group_name, backend, override_existing) ==
    Remote(e.inference_engine_actor, "init_weight_update_communicator",
           <<master_addr, master_port, rank_offset, world_size, backend,
             group_name, override_existing>>)

\* Mutant: override_existing is not forwarded.
init_weight_update_communicator_no_override(e, master_addr, master_port, rank_offset, world_size, group_name, backend, override_existing) ==
    Remote(e.inference_engine_actor, "init_weight_update_communicator",
           <<master_addr, master_port, rank_offset, world_size, group_name,
             backend, FALSE>>)

\* lines 37-42
init_weight_update_communicator(e, master_addr, master_port, rank_offset, world_size, group_name, backend, override_existing) ==
    Remote(e.inference_engine_actor, "init_weight_update_communicator",
           <<master_addr, master_port, rank_offset, world_size, group_name,
             backend, override_existing>>)

\* lines 44-45
update_named_weight(e, request) ==
    Remote(e.inference_engine_actor, "update_named_weight", request)

\* lines 47-48
teardown(e) == Remote(e.inference_engine_actor, "teardown", <<>>)

\* Mutant: reset_prefix_cache forwards to another no-argument method.
reset_prefix_cache_as_wake_up(e) ==
    Remote(e.inference_engine_actor, "wake_up", <<>>)

\* lines 50-51
reset_prefix_cache(e) ==
    Remote(e.inference_engine_actor, "reset_prefix_cache", <<>>)

\* Mutant: the facade catches the remote error and returns normally.
AwaitedSwallowed(r) == IF r.err = None THEN r ELSE [err |-> None, val |-> None]

\* lines 29-51, "return await ...": the value or the error of the remote
\* call reaches the caller as it is.
Awaited(r) == r

\* line 38: override_existing: bool = False
OverrideExistingDefault == FALSE

\* Python's method call on a facade object; a parameter the caller leaves
\* out takes its default.
FacadeCall(e, op, arg) ==
    CASE op = "generate" -> generate(e, arg[1])
      [] op = "wake_up" -> wake_up(e, arg)
      [] op = "sleep" -> sleep(e, arg)
      [] op = "init_weight_update_communicator" ->
            init_weight_update_communicator(
                e, arg[1], arg[2], arg[3], arg[4], arg[5], arg[6],
                IF Len(arg) >= 7 THEN arg[7] ELSE OverrideExistingDefault)
      [] op = "update_named_weight" -> update_named_weight(e, arg)
      [] op = "teardown" -> teardown(e)
      [] op = "reset_prefix_cache" -> reset_prefix_cache(e)

FacadeOps ==
    {"generate", "wake_up", "sleep", "init_weight_update_communicator",
     "update_named_weight", "teardown", "reset_prefix_cache"}

(***************************************************************************)
(* The engine process behind an actor handle, as the design document       *)
(* describes it.                                                           *)
(***************************************************************************)
MinOf(S) == CHOOSE x \in S : \A y \in S : x <= y

OldestWeight(w) == MinOf({w[n] : n \in DOMAIN w})

EmptyCache == [entries |-> FALSE, oldest |-> 0]

\* generate: computed from the current weights and whatever the prefix cache
\* holds; what it computes is added to the cache.  An engine whose GPU memory
\* is freed computes nothing: the call fails.
EngineGenerate(p) ==
    [proc |-> [p EXCEPT !.cache =
                  [entries |-> TRUE,
                   oldest |-> IF p.cache.entries
                              THEN MinOf({p.cache.oldest, OldestWeight(p.weights)})
                              ELSE OldestWeight(p.weights)]],
     result |-> Ok([weights |-> p.weights,
                    cache_hit |-> p.cache.entries,
                    cache_oldest |-> p.cache.oldest])]

\* The process groups an engine holds for weight updates: pairs of a group
\* name and the number of times a communicator was created under that name.
\* A name that has a communicator gets a new one only on override_existing.
InitCommunicator(comm, group_name, override_existing) ==
    IF \E x \in comm : x[1] = group_name
    THEN IF override_existing
         THEN {IF x[1] = group_name THEN <<x[1], x[2] + 1>> ELSE x : x \in comm}
         ELSE comm
    ELSE comm \cup {<<group_name, 1>>}

\* The handles an engine was given and acknowledged: the rendezvous fields of
\* every init_weight_update_communicator call it served.
AcceptHandle(joined, rank_offset, world_size, group_name) ==
    joined \cup {[group_name |-> group_name, rank_offset |-> rank_offset,
                  world_size |-> world_size]}

\* What a caller can tell from the outcome of generate: the error, or the
\* tokens, which for a given input and seed are decided by the weights.
Output(method, r) ==
    [err |-> r.err,
     tokens |-> IF method = "generate" /\ r.err = None
                THEN r.val.weights ELSE <<>>]

\* One call served by an engine process in state p.
EngineHandle(p, method, arg) ==
    IF p.state # "running"
    THEN [proc |-> p, result |-> Err("EngineUnavailable")]
    ELSE CASE method = "generate" ->
                 IF p.materialized
                 THEN EngineGenerate(p)
                 ELSE [proc |-> p, result |-> Err("EngineAsleep")]
           [] method = "sleep" ->
                 [proc |-> [p EXCEPT !.materialized = FALSE], result |-> Ok(None)]
           [] method = "wake_up" ->
                 [proc |-> [p EXCEPT !.materialized = TRUE], result |-> Ok(None)]
           [] method = "init_weight_update_communicator" ->
                 [proc |-> [p EXCEPT !.comm =
                               InitCommunicator(p.comm, arg[5], arg[7]),
                                     !.joined =
                               AcceptHandle(p.joined, arg[3], arg[4], arg[5])],
                  result |-> Ok(None)]
           [] method = "update_named_weight" ->
                 [proc |-> [p EXCEPT !.weights[arg[1]] = arg[2]],
                  result |-> Ok(None)]
           [] method = "reset_prefix_cache" ->
                 [proc |-> [p EXCEPT !.cache = EmptyCache], result |-> Ok(None)]
           [] method = "teardown" ->
                 [proc |-> [p EXCEPT !.state = "torn_down",
                                     !.materialized = FALSE,
                                     !.cache = EmptyCache],
                  result |-> Ok(None)]

(***************************************************************************)
(* Calls in flight.  A call is issued through the facade of replica k and  *)
(* completes when the engine process has served it.                        *)
(***************************************************************************)
Call(k, op, arg, by) ==
    [replica |-> k,
     op |-> op,
     given |-> arg,
     call |-> FacadeCall(engines[k], op, arg),
     by |-> by,
     after_teardown |-> teardown_acked[k],
     overtaken |-> FALSE,
     epoch |-> sync.cycles_done,
     seq |-> 0]

\* The ranks the pool's engines take in a weight-update group: one per
\* tensor-parallel rank of every replica.
EngineRanks == Len(engines) * args.tensor_parallel_size

\* Arguments the pool's users pass; override_existing is left out.  One
\* training rank comes before the engines' ranks.
CommunicatorArgs == <<1, 2, 1, 1 + EngineRanks, 1, 2>>

UserArg(op) ==
    CASE op = "generate" -> <<1>>
      [] op = "init_weight_update_communicator" -> CommunicatorArgs
      [] op = "update_named_weight" -> <<1, 1>>
      [] OTHER -> <<>>

UserIssue(k, op, arg, limit) ==
    /\ pc = "returned"
    /\ issued < limit
    /\ Call(k, op, arg, "user") \notin pending
    /\ pending' = pending \cup {Call(k, op, arg, "user")}
    /\ issued' = issued + 1
    /\ UNCHANGED <<ctorVars, proc, last_done, teardown_acked, last_toggle, trace,
                   sync>>

\* A user of the pool calls any facade method on replica k.
UserCall(k, op) == UserIssue(k, op, UserArg(op), MaxCalls)

\* Serving traffic while weights are synchronised.
UserGenerate(k) == UserIssue(k, "generate", UserArg("generate"), MaxGenerates)

\* A user sets the communicator up again, with override_existing=True.
UserOverride(k) ==
    UserIssue(k, "init_weight_update_communicator",
              CommunicatorArgs \o <<TRUE>>, MaxCalls)

\* A caller passes a handle whose world_size it computed itself.
WorldSizes == {1 + EngineRanks, 2 + EngineRanks}

UserHandle(k, world_size) ==
    UserIssue(k, "init_weight_update_communicator",
              [CommunicatorArgs EXCEPT ![4] = world_size], MaxCalls)

\* What the completion of call c with result r changes on the caller's side.
Completed(c, r, before, after) ==
    /\ last_done' = [replica |-> c.replica, op |-> c.op, given |-> c.given,
                     call |-> c.call, arg |-> c.call.arg,
                     by |-> c.by, raw |-> r,
                     after_teardown |-> c.after_teardown,
                     overtaken |-> c.overtaken, epoch |-> c.epoch,
                     result |-> Awaited(r),
                     before |-> before, after |-> after]
    /\ teardown_acked' =
          IF c.op = "teardown" /\ Awaited(r).err = None
          THEN [teardown_acked EXCEPT ![c.replica] = TRUE]
          ELSE teardown_acked
    /\ last_toggle' =
          IF c.op \in {"sleep", "wake_up"} /\ Awaited(r).err = None
          THEN [last_toggle EXCEPT ![c.replica] = c.op]
          ELSE last_toggle
    /\ sync' =
          IF c.by = "sync"
          THEN [sync EXCEPT !.results[c.replica] =
                   IF Awaited(r).err = None THEN "ok" ELSE "err"]
          ELSE sync
    /\ trace' =
          IF c.seq > 0
          THEN [trace EXCEPT ![c.replica].served =
                   Append(@, [op |-> c.op, method |-> c.call.method,
                              seq |-> c.seq,
                              out |-> Output(c.call.method, r)])]
          ELSE trace

\* A teardown that takes effect overtakes the calls still in flight on the
\* same actor.
Overtake(c, took_effect, rest) ==
    IF c.call.method = "teardown" /\ took_effect
    THEN {IF d.call.actor = c.call.actor THEN [d EXCEPT !.overtaken = TRUE] ELSE d
             : d \in rest}
    ELSE rest

ActorServe(c) ==
    /\ c \in pending
    /\ LET a == c.call.actor
           out == EngineHandle(proc[a], c.call.method, c.call.arg)
       IN /\ proc' = [proc EXCEPT ![a] = out.proc]
          /\ pending' = Overtake(c, proc[a].state = "running", pending \ {c})
          /\ Completed(c, out.result, proc[a], out.proc)
    /\ UNCHANGED <<ctorVars, issued>>

(***************************************************************************)
(* A returned pool, as the starting point of the pool's use: the state     *)
(* create_ray_wrapped_inference_engines leaves behind for arguments a when *)
(* every engine constructor succeeded.                                     *)
(***************************************************************************)
ReturnedProc(a) ==
    [NewProc(TRUE) EXCEPT !.materialized = ~a.inference_engine_enable_sleep]

ReturnedHandles(a) ==
    /\ args = a
    /\ pc = "returned"
    /\ error = None
    /\ distributed_executor_backend = ExecutorBackend(a.tensor_parallel_size)
    /\ use_hybrid_engine = UseHybridEngine(a.shared_pg)
    /\ num_gpus = NumGpus(a.tensor_parallel_size, UseHybridEngine(a.shared_pg))
    /\ shared_pg = IF NeedsOwnPG(UseHybridEngine(a.shared_pg))
                   THEN CreatedPG(1) ELSE a.shared_pg
    /\ i = a.num_inference_engines
    /\ inference_engine_actors = [k \in 1..a.num_inference_engines |-> k]
    /\ engines = WrapAll(inference_engine_actors)
    /\ sleep_refs = IF a.inference_engine_enable_sleep
                    THEN [k \in 1..a.num_inference_engines |->
                             [actor |-> k, state |-> "ok"]]
                    ELSE <<>>
    /\ placement_groups =
          IF NeedsOwnPG(UseHybridEngine(a.shared_pg))
          THEN <<[bundles |-> Bundles(a.num_inference_engines,
                                      a.tensor_parallel_size),
                  strategy |-> "PACK", ready |-> TRUE,
                  waited |-> PgReadyTimeout]>>
          ELSE <<>>
    /\ remote_tasks = <<"get_all_env_variables">>
    /\ worker_env = [prior |-> UnsetEnv, now |-> UnsetEnv]
    /\ actors = [k \in 1..a.num_inference_engines |-> VllmActor(k - 1)]

ReturnedPool(a) ==
    /\ ReturnedHandles(a)
    /\ proc = [k \in 1..a.num_inference_engines |-> ReturnedProc(a)]

\* The pools the facade and the weight sync are exercised on.
UsedPoolArgs ==
    {a \in Args :
        /\ a.backend = "vllm"
        /\ a.vllm_version = MinVllmVersion
        /\ a.async_engine
        /\ a.num_inference_engines = MaxReplicas
        /\ a.tensor_parallel_size = 1
        /\ a.shared_pg = CallerPG
        /\ a.shared_pg_bundles = MaxReplicas * MaxTP
        /\ a.seed = 0}

FreshCalls ==
    /\ pending = {}
    /\ last_done = NoDone
    /\ issued = 0
    /\ teardown_acked = [k \in 1..Len(engines) |-> FALSE]
    /\ last_toggle = [k \in 1..Len(engines) |-> None]
    /\ trace = [k \in 1..Len(engines) |-> [in_order |-> TRUE, served |-> <<>>]]
    /\ sync = [SyncIdle EXCEPT !.results = [k \in 1..Len(engines) |-> "none"]]

InitLife ==
    /\ \E a \in UsedPoolArgs : ReturnedPool(a)
    /\ FreshCalls
    /\ NoSide

NextLife ==
    \/ \E k \in 1..Len(engines), op \in FacadeOps : UserCall(k, op)
    \/ \E c \in pending : ActorServe(c)

LifeSpec == InitLife /\ [][NextLife]_vars

\* Mutant: the method hands the future back without awaiting it.
ReturnsAtOnce(remote_done) == TRUE

\* lines 28-51, "return await ...": a facade method returns to its caller
\* when the remote call has completed.
ReturnsWhen(remote_done) == remote_done

\* The caller holds the outcome of every call it issued to replica k.
AllReturned(k) ==
    \A c \in pending : c.replica = k => ReturnsWhen(FALSE)

\* A caller issues a call whose place in the order of issue is kept; whether
\* it waited for its earlier calls on the replica is remembered.
TracedIssue(k, op, limit) ==
    /\ pc = "returned"
    /\ issued < limit
    /\ pending' = pending \cup
          {[Call(k, op, UserArg(op), "user") EXCEPT !.seq = issued + 1]}
    /\ issued' = issued + 1
    /\ trace' = [trace EXCEPT ![k].in_order = @ /\ AllReturned(k)]
    /\ UNCHANGED <<ctorVars, proc, last_done, teardown_acked, last_toggle, sync>>

OrderedOps == {"update_named_weight", "reset_prefix_cache"}

\* Callers that may or may not wait for their earlier calls.
NextOrder ==
    \/ \E k \in 1..Len(engines), op \in OrderedOps : TracedIssue(k, op, MaxCalls)
    \/ \E c \in pending : ActorServe(c)

OrderSpec == InitLife /\ [][NextOrder]_vars

MaxRoundTrip == 4

CycleOps == {"generate", "sleep", "wake_up"}

\* One caller that waits for every call before it issues the next.
SequentialCall(k, op) ==
    /\ pending = {}
    /\ TracedIssue(k, op, MaxRoundTrip)

NextCycle ==
    \/ \E k \in 1..Len(engines), op \in CycleOps : SequentialCall(k, op)
    \/ \E c \in pending : ActorServe(c)

CycleSpec == InitLife /\ [][NextCycle]_vars

\* Setting up the weight-update communicator, repeatedly.
NextComm ==
    \/ \E k \in 1..Len(engines) :
          UserCall(k, "init_weight_update_communicator")
    \/ \E k \in 1..Len(engines) : UserOverride(k)
    \/ \E k \in 1..Len(engines), w \in WorldSizes : UserHandle(k, w)
    \/ \E c \in pending : ActorServe(c)

CommSpec == InitLife /\ [][NextComm]_vars

(***************************************************************************)
(* The weight-sync coordinator, as the design document describes it: for   *)
(* every named weight in turn, update_named_weight on every replica and    *)
(* wait for all of them; then reset_prefix_cache on every replica and wait *)
(* for all of them.  A step in which a replica failed ends the cycle with  *)
(* a WeightSyncFailure naming the replicas that failed; the caller may     *)
(* retry the whole cycle.                                                  *)
(***************************************************************************)
SyncCalls(op, arg) == {Call(k, op, arg, "sync") : k \in 1..Len(engines)}

AllPending == [k \in 1..Len(engines) |-> "pending"]

\* Begin a cycle (a new one, or the failed one again) with the first weight.
SyncBegin(version) ==
    /\ pending' = pending \cup SyncCalls("update_named_weight", <<1, version>>)
    /\ sync' = [sync EXCEPT !.pc = "update", !.version = version, !.step = 1,
                            !.results = AllPending, !.failed = {},
                            !.actor_failed = {}]
    /\ UNCHANGED <<ctorVars, proc, last_done, issued, teardown_acked, last_toggle,
                   trace>>

SyncStart ==
    /\ pc = "returned"
    /\ sync.pc = "idle"
    /\ sync.cycles_done < MaxCycles
    /\ SyncBegin(sync.cycles_done + 1)

SyncRetry ==
    /\ sync.pc = "failed"
    /\ SyncBegin(sync.version)

StepResolved == \A k \in 1..Len(engines) : sync.results[k] \in {"ok", "err"}

StepFailures == {k \in 1..Len(engines) : sync.results[k] = "err"}

\* The step's calls are all answered and one of them failed.
SyncFail ==
    /\ sync.pc \in {"update", "reset"}
    /\ StepResolved
    /\ StepFailures # {}
    /\ sync' = [sync EXCEPT !.pc = "failed", !.failed = StepFailures]
    /\ UNCHANGED <<ctorVars, proc, callVars>>

\* All replicas acknowledged this weight: go on to the next one.
SyncNextWeight ==
    /\ sync.pc = "update"
    /\ StepResolved
    /\ StepFailures = {}
    /\ sync.step < NumWeights
    /\ pending' = pending \cup
          SyncCalls("update_named_weight", <<sync.step + 1, sync.version>>)
    /\ sync' = [sync EXCEPT !.step = sync.step + 1, !.results = AllPending]
    /\ UNCHANGED <<ctorVars, proc, last_done, issued, teardown_acked, last_toggle,
                   trace>>

\* All replicas acknowledged the last weight: reset every prefix cache.
SyncReset ==
    /\ sync.pc = "update"
    /\ StepResolved
    /\ StepFailures = {}
    /\ sync.step = NumWeights
    /\ pending' = pending \cup SyncCalls("reset_prefix_cache", <<>>)
    /\ sync' = [sync EXCEPT !.pc = "reset", !.results = AllPending]
    /\ UNCHANGED <<ctorVars, proc, last_done, issued, teardown_acked, last_toggle,
                   trace>>

\* All replicas acknowledged the reset: the cycle is complete.
SyncDone ==
    /\ sync.pc = "reset"
    /\ StepResolved
    /\ StepFailures = {}
    /\ sync' = [sync EXCEPT !.pc = "idle", !.cycles_done = sync.version]
    /\ UNCHANGED <<ctorVars, proc, callVars>>

\* A call of the coordinator fails on the engine's side (an error, or no
\* answer in time); the engine may or may not have applied it.
ActorFail(c) ==
    /\ c \in pending
    /\ c.by = "sync"
    /\ sync.faults < MaxFailures
    /\ LET a == c.call.actor
           out == EngineHandle(proc[a], c.call.method, c.call.arg)
       IN \E applied \in BOOLEAN :
             /\ proc' = [proc EXCEPT ![a] = IF applied THEN out.proc ELSE proc[a]]
             /\ pending' = pending \ {c}
             /\ last_done' = [replica |-> c.replica, op |-> c.op,
                              given |-> c.given,
                              call |-> c.call, arg |-> c.call.arg,
                              by |-> c.by, raw |-> Err("RemoteError"),
                              after_teardown |-> c.after_teardown,
                              overtaken |-> c.overtaken, epoch |-> c.epoch,
                              result |-> Awaited(Err("RemoteError")),
                              before |-> proc[a],
                              after |-> IF applied THEN out.proc ELSE proc[a]]
             /\ sync' = [sync EXCEPT
                           !.results[c.replica] =
                               IF Awaited(Err("RemoteError")).err = None
                               THEN "ok" ELSE "err",
                           !.faults = sync.faults + 1,
                           !.actor_failed = sync.actor_failed \cup {c.replica}]
    /\ UNCHANGED <<ctorVars, issued, teardown_acked, last_toggle, trace>>

\* The pool has served traffic before its weights are synchronised: every
\* replica holds a prefix cache computed under the initial weights.
WarmProc(p) == EngineGenerate(p).proc

InitSync ==
    /\ \E a \in UsedPoolArgs :
          /\ ~a.inference_engine_enable_sleep
          /\ ReturnedHandles(a)
          /\ proc = [k \in 1..a.num_inference_engines |->
                        WarmProc(ReturnedProc(a))]
    /\ FreshCalls
    /\ NoSide

NextSync ==
    \/ SyncStart
    \/ SyncRetry
    \/ SyncFail
    \/ SyncNextWeight
    \/ SyncReset
    \/ SyncDone
    \/ \E k \in 1..Len(engines) : UserGenerate(k)
    \/ \E c \in pending : ActorServe(c)
    \/ \E c \in pending : ActorFail(c)

SyncSpec == InitSync /\ [][NextSync]_vars

-----------------------------------------------------------------------------
(***************************************************************************)
(* Properties of pool construction.                                        *)
(***************************************************************************)
Constructed == pc \in {"sleep_check", "sleep_wait", "return", "returned"}
Replicas == 1..Len(engines)
ActorOf(k) == engines[k].inference_engine_actor
AllRunning == \A a \in 1..Len(proc) : proc[a].state = "running"

\* C1: a call that returns yields exactly num_inference_engines facades; the
\* facade at index k wraps the actor created in loop iteration k, every actor
\* created is wrapped exactly once, and tp_size read through a facade of a
\* running engine is the configured tensor_parallel_size.
C1_PoolInCreationOrder ==
    pc = "returned" =>
        /\ Len(engines) = args.num_inference_engines
        /\ Len(actors) = args.num_inference_engines
        /\ \A k \in Replicas :
              /\ ActorOf(k) \in 1..Len(actors)
              /\ actors[ActorOf(k)].iteration = k - 1
              /\ proc[ActorOf(k)].state = "running" =>
                    /\ tp_size(engines[k]).err = None
                    /\ tp_size(engines[k]).val = args.tensor_parallel_size
        /\ \A j, k \in Replicas : j # k => ActorOf(j) # ActorOf(k)

C1_Witness ==
    /\ pc = "returned"
    /\ args.num_inference_engines = 2
    /\ args.tensor_parallel_size = 2
    /\ args.backend = "sglang"
    /\ Len(engines) = 2
    /\ AllRunning
    /\ tp_size(engines[2]).val = 2

\* C2: for tensor_parallel_size T > 1 the bundle indices bound to replica k
\* are exactly k*T, ..., (k+1)*T - 1 in this order; the sets of two replicas
\* are disjoint, and once the loop is over their union is 0 .. N*T - 1.
BoundBundles(a) == Range(actors[a].kw_bundle_indices.list)

C2_ContiguousBundleSlices ==
    args.tensor_parallel_size > 1 =>
        LET T == args.tensor_parallel_size IN
        /\ \A a \in 1..Len(actors) :
              LET k == a - 1 IN
              /\ actors[a].kw_bundle_indices.some
              /\ Len(actors[a].kw_bundle_indices.list) = T
              /\ \A n \in 1..T : actors[a].kw_bundle_indices.list[n] = k * T + n - 1
              /\ BoundBundles(a) = (k * T)..((k + 1) * T - 1)
        /\ \A a, b \in 1..Len(actors) :
              a # b => BoundBundles(a) \cap BoundBundles(b) = {}
        /\ Constructed =>
              UNION {BoundBundles(a) : a \in 1..Len(actors)}
                  = 0..(args.num_inference_engines * T - 1)

C2_Witness ==
    /\ pc = "returned"
    /\ args.tensor_parallel_size = 2
    /\ args.num_inference_engines = 2
    /\ BoundBundles(1) = {0, 1}
    /\ BoundBundles(2) = {2, 3}

\* C3: without a shared placement group the call requests exactly one
\* placement group of num_inference_engines * tensor_parallel_size bundles
\* {GPU: 1, CPU: 1} with strategy PACK, and no engine actor (nor the task
\* that creates one) exists before the group was waited for with timeout 30
\* and found ready.
C3_OwnPackedPlacementGroup ==
    args.shared_pg = NoPG =>
        /\ Len(placement_groups) <= 1
        /\ pc \in {"pg_wait", "loop"} \/ Constructed => Len(placement_groups) = 1
        /\ \A g \in 1..Len(placement_groups) :
              /\ Len(placement_groups[g].bundles)
                    = args.num_inference_engines * args.tensor_parallel_size
              /\ \A b \in 1..Len(placement_groups[g].bundles) :
                    placement_groups[g].bundles[b] = [GPU |-> 1, CPU |-> 1]
              /\ placement_groups[g].strategy = "PACK"
        /\ (actors # <<>> \/ "get_sglang_engine" \in Range(remote_tasks)) =>
              /\ Len(placement_groups) = 1
              /\ placement_groups[1].ready
              /\ placement_groups[1].waited = 30
              /\ \A a \in 1..Len(actors) :
                    actors[a].scheduling_strategy.placement_group = CreatedPG(1)

C3_Witness ==
    /\ pc = "returned"
    /\ args.shared_pg = NoPG
    /\ args.num_inference_engines = 2
    /\ args.tensor_parallel_size = 2
    /\ Len(placement_groups) = 1
    /\ Len(placement_groups[1].bundles) = 4
    /\ placement_groups[1].ready
    /\ actors[1].kw_bundle_indices.list = <<0, 1>>
    /\ actors[2].kw_bundle_indices.list = <<2, 3>>

\* C4: with a shared placement group and tensor_parallel_size = 1 the call
\* creates no placement group, every engine actor is scheduled into the
\* caller's group, and every actor requests a GPU share of 0.2.
C4_ColocatedFractionalShare ==
    (args.shared_pg = CallerPG /\ args.tensor_parallel_size = 1) =>
        /\ placement_groups = <<>>
        /\ \A a \in 1..Len(actors) :
              /\ actors[a].scheduling_strategy.placement_group = CallerPG
              /\ actors[a].num_gpus = Frac(1, 5)

C4_Witness ==
    /\ pc = "returned"
    /\ args.shared_pg = CallerPG
    /\ args.tensor_parallel_size = 1
    /\ Len(actors) = 2
    /\ actors[2].num_gpus = Frac(1, 5)

\* C5: with a backend other than vllm and sglang, or with vllm installed in
\* a version below 0.8.3, the call raises, and no placement group, remote
\* task or actor was requested.
VersionNumber(v) == v[1] * 10000 + v[2] * 100 + v[3]

InvalidConfig ==
    \/ args.backend \notin {"vllm", "sglang"}
    \/ args.backend = "vllm" /\ VersionNumber(args.vllm_version) < 803

C5_InvalidConfigFailsFirst ==
    InvalidConfig =>
        /\ pc \in {"check_backend", "raised"}
        /\ pc = "raised" => error \in {"ValueError", "AssertionError"}
        /\ placement_groups = <<>>
        /\ remote_tasks = <<>>
        /\ actors = <<>>

C5_Witness ==
    /\ pc = "raised"
    /\ args.backend = "vllm"
    /\ args.vllm_version = <<0, 7, 9>>
    /\ error = "AssertionError"

\* C6: with inference_engine_enable_sleep, a pool is returned only after
\* sleep() was issued to each of its replicas once and every one of them
\* acknowledged; all replicas of the returned pool are asleep.
C6_ReturnedPoolAllAsleep ==
    (args.inference_engine_enable_sleep /\ pc \in {"return", "returned"}) =>
        /\ Len(sleep_refs) = args.num_inference_engines
        /\ \A k \in Replicas :
              /\ sleep_refs[k].actor = ActorOf(k)
              /\ sleep_refs[k].state = "ok"
              /\ ~proc[ActorOf(k)].materialized

C6_Witness ==
    /\ pc = "returned"
    /\ args.inference_engine_enable_sleep
    /\ args.num_inference_engines = 2
    /\ \A k \in Replicas : ~proc[ActorOf(k)].materialized
    /\ AllRunning

-----------------------------------------------------------------------------
(***************************************************************************)
(* Properties of the weight-sync cycle.                                    *)
(***************************************************************************)
ProcOf(k) == proc[ActorOf(k)]
CycleComplete == sync.pc = "idle" /\ sync.cycles_done >= 1
ResetCalled(k) ==
    \/ sync.results[k] \in {"ok", "err"}
    \/ \E c \in pending :
          /\ c.by = "sync"
          /\ c.call = Remote(ActorOf(k), "reset_prefix_cache", <<>>)

C8_PartialFailureSurfaced ==
    /\ sync.actor_failed # {} =>
          /\ sync.pc \in {"update", "reset", "failed"}
          /\ \A k \in sync.actor_failed : sync.results[k] = "err"
    /\ sync.pc = "failed" =>
          /\ sync.failed # {}
          /\ sync.failed = sync.actor_failed
    /\ (/\ last_done.op = "update_named_weight"
        /\ last_done.result.err = None
        /\ last_done.before.state = "running"
        /\ last_done.before.weights[last_done.arg[1]] = last_done.arg[2]) =>
          last_done.after = last_done.before
    /\ CycleComplete =>
          \A k \in Replicas, n \in 1..NumWeights :
             ProcOf(k).weights[n] = sync.cycles_done

C8_Witness ==
    /\ sync.faults = 1
    /\ sync.pc = "update"
    /\ \E k \in Replicas : sync.results[k] = "ok"
    /\ last_done.op = "update_named_weight"
    /\ last_done.result.err = None
    /\ last_done.before.weights[last_done.arg[1]] = last_done.arg[2]
    /\ last_done.after = last_done.before

-----------------------------------------------------------------------------
(***************************************************************************)
(* Properties of the facade calls on a returned pool.                      *)
(***************************************************************************)
\* C9: a call issued through a facade after its teardown was acknowledged
\* fails with EngineUnavailable, whichever of the seven methods it is; a
\* generate in flight when the replica is torn down fails with
\* EngineUnavailable too, and such calls can always be completed.
C9_CallsAfterTeardownFail ==
    /\ last_done.after_teardown =>
          /\ last_done.op \in FacadeOps
          /\ last_done.result.err = "EngineUnavailable"
    /\ (last_done.op = "generate" /\ last_done.overtaken) =>
          last_done.result.err = "EngineUnavailable"
    /\ \A c \in pending :
          (c.after_teardown \/ c.overtaken) => ENABLED ActorServe(c)

C9_Witness ==
    /\ last_done.op = "generate"
    /\ last_done.overtaken
    /\ ~last_done.after_teardown
    /\ last_done.result.err = "EngineUnavailable"
    /\ \E c \in pending : c.after_teardown /\ c.replica = last_done.replica

\* C10: sleep and wake_up on a running replica succeed and change nothing
\* but whether its memory is materialized (sleep: no, wake_up: yes), so a
\* sleep on a sleeping replica changes nothing at all and the replica stays
\* running; a running replica's materialized flag is the effect of the last
\* sleep / wake_up completed on it.
C10_SleepWakeToggleOnly ==
    /\ (last_done.op \in {"sleep", "wake_up"}
            /\ last_done.before.state = "running") =>
          /\ last_done.result.err = None
          /\ last_done.after =
                [last_done.before EXCEPT
                    !.materialized = (last_done.op = "wake_up")]
          /\ (last_done.op = "sleep" /\ ~last_done.before.materialized) =>
                last_done.after = last_done.before
    /\ \A k \in Replicas :
          (last_toggle[k] # None /\ ProcOf(k).state = "running") =>
             ProcOf(k).materialized = (last_toggle[k] = "wake_up")

C10_Witness ==
    /\ last_done.op = "sleep"
    /\ last_done.before.state = "running"
    /\ ~last_done.before.materialized
    /\ last_done.after = last_done.before
    /\ last_toggle[last_done.replica] = "sleep"
    /\ issued >= 2

-----------------------------------------------------------------------------
(***************************************************************************)
(* The training side's actor group and its dispatcher, as the design      *)
(* document describes them and as tests/gpu/test_megatron_worker.py calls  *)
(* them: async_run_ray_method(mode, method, data) returns one future per   *)
(* actor in group order, ray.get turns the futures into values, and after  *)
(* a mesh dispatch concatenate_outputs_after_mesh_dispatch assembles the   *)
(* values of the shard owners.                                             *)
(***************************************************************************)
MaxActors == 4
MaxShardLen == 2

Injections(n) ==
    {f \in [1..n -> 1..n] : \A a, b \in 1..n : a # b => f[a] # f[b]}

\* The mesh coordinates of global rank r in a mesh of D data-parallel groups
\* of M model-parallel (tensor / pipeline) ranks each.
Coord(r, D, M) == [dp |-> r \div M, mp |-> r % M, dp_size |-> D]

MeshShapes ==
    {sh \in (1..MaxActors) \X (1..MaxActors) : sh[1] * sh[2] <= MaxActors}

\* The ActorInfo list of a group: one entry per actor, in insertion order.
ActorInfos(D, M, order) == [j \in 1..(D * M) |-> Coord(order[j] - 1, D, M)]

\* The rank whose output stands for its data-parallel group.
is_collection_dp_rank(info) == info.mp = 0

\* The batch positions that data-parallel rank d works on when the batch is
\* cut into chunks of the lengths lens.
ChunkStart(lens, d) == IF d = 0 THEN 0 ELSE d * lens[1]
Chunk(lens, d) == [q \in 1..lens[d + 1] |-> ChunkStart(lens, d) + q]

\* Chunk lengths: c for every rank but the last, r <= c for the last.
ChunkLens(D, c, r) == [d \in 1..D |-> IF d = D THEN r ELSE c]

RECURSIVE SumSeq(_)
SumSeq(s) == IF s = <<>> THEN 0 ELSE s[1] + SumSeq(Tail(s))

\* What each actor receives.  pass_through: the same arguments for every
\* actor.  mesh: the chunk of the actor's data-parallel rank.
async_run_ray_method(mode, infos, lens) ==
    [j \in 1..Len(infos) |->
        IF mode = "pass_through"
        THEN [q \in 1..SumSeq(lens) |-> q]
        ELSE Chunk(lens, infos[j].dp)]

\* An actor's return value: one entry per position it worked on (mesh), or
\* a payload whose size is the actor's own business (pass_through).
ActorOutput(info, positions) ==
    [q \in 1..Len(positions) |->
        [pos |-> positions[q], dp |-> info.dp, mp |-> info.mp]]

\* Mutant: the values come back in the order the futures completed.
RayGetInCompletionOrder(refs, done_order) ==
    [k \in 1..Len(done_order) |-> refs[done_order[k]].val]

\* Mutant: the values come back last future first.
RayGetReversed(refs, done_order) ==
    [k \in 1..Len(refs) |-> refs[Len(refs) + 1 - k].val]

\* tests/gpu/test_megatron_worker.py lines 181, 273, 466: ray.get(refs) on a
\* list of futures yields their values in the order of the list.
RayGet(refs, done_order) == [k \in 1..Len(refs) |-> refs[k].val]

RECURSIVE Concat(_)
Concat(ss) == IF ss = <<>> THEN <<>> ELSE ss[1] \o Concat(Tail(ss))

Owners(infos, d) ==
    {j \in 1..Len(infos) : infos[j].dp = d /\ is_collection_dp_rank(infos[j])}

MeshDispatchError == [err |-> "MeshDispatchError", val |-> <<>>]

\* The shards of the unique owners, in ascending data-parallel rank.
OwnerShards(infos, results) ==
    [d \in 1..infos[1].dp_size |->
        results[CHOOSE j \in Owners(infos, d - 1) : TRUE]]

\* Mutant: the positions of the assembled output are not looked at.
InOrderUnchecked(out) == TRUE

InOrder(out) == \A q \in 1..Len(out) : out[q].pos = q

concatenate_outputs_after_mesh_dispatch(infos, results) ==
    IF Len(infos) # Len(results) \/ infos = <<>>
    THEN MeshDispatchError
    ELSE IF \E d \in 0..(infos[1].dp_size - 1) :
               Cardinality(Owners(infos, d)) # 1
    THEN MeshDispatchError
    ELSE IF ~InOrder(Concat(OwnerShards(infos, results)))
    THEN MeshDispatchError
    ELSE Ok(Concat(OwnerShards(infos, results)))

\* A group of D * M actors.  A mesh dispatch is tried on every insertion
\* order of the actors; pass_through does not look at the ActorInfo list.
Groups ==
    {[NoDispatch EXCEPT !.stage = "group", !.mode = mode,
                        !.actor_infos = ActorInfos(sh[1], sh[2], order)] :
        <<mode, sh, order>> \in
            {t \in {"pass_through", "mesh"} \X MeshShapes
                     \X UNION {Injections(n) : n \in 1..MaxActors} :
                /\ DOMAIN t[3] = 1..(t[2][1] * t[2][2])
                /\ t[1] = "pass_through" =>
                      \A j \in DOMAIN t[3] : t[3][j] = j}}

IdlePool ==
    /\ \E a \in UsedPoolArgs :
          ~a.inference_engine_enable_sleep /\ ReturnedPool(a)
    /\ FreshCalls

InitDispatch ==
    /\ IdlePool
    /\ dispatch \in Groups
    /\ device = FreeDevice

PendingRef == [state |-> "pending", val |-> <<>>]

\* actor_group.async_run_ray_method(mode, method, data) on a batch cut into
\* chunks of length c, the last one of length r.
Dispatch(c, r) ==
    /\ dispatch.stage = "group"
    /\ LET infos == dispatch.actor_infos
           lens == ChunkLens(infos[1].dp_size, c, r)
       IN /\ infos[1].dp_size = 1 \/ dispatch.mode = "pass_through" => c = r
          /\ dispatch' =
                [dispatch EXCEPT
                    !.stage = "running",
                    !.lens = lens,
                    !.sent = async_run_ray_method(dispatch.mode, infos, lens),
                    !.refs = [j \in 1..Len(infos) |-> PendingRef]]
    /\ UNCHANGED <<args, worker_env, pc, error, shared_pg, i, planVars, listVars,
                   placement_groups, remote_tasks, actors, proc, callVars, sync,
                   device>>

\* Actor j finishes the method and its future resolves.  The order of
\* completion is kept for pass_through, whose callers index the result list
\* by actor.
ActorDone(j, n) ==
    /\ dispatch.stage = "running"
    /\ j \in 1..Len(dispatch.refs)
    /\ dispatch.refs[j].state = "pending"
    /\ dispatch.mode = "mesh" => n = 1
    /\ dispatch' =
          [dispatch EXCEPT
              !.refs[j] =
                  [state |-> "done",
                   val |-> IF dispatch.mode = "mesh"
                           THEN ActorOutput(dispatch.actor_infos[j],
                                            dispatch.sent[j])
                           ELSE ActorOutput(dispatch.actor_infos[j],
                                            [q \in 1..n |-> q])],
              !.done_order = IF dispatch.mode = "mesh"
                             THEN dispatch.done_order
                             ELSE Append(dispatch.done_order, j)]
    /\ UNCHANGED <<args, worker_env, pc, error, shared_pg, i, planVars, listVars,
                   placement_groups, remote_tasks, actors, proc, callVars, sync,
                   device>>

\* ray.get on the futures: returns once every one of them has resolved.
Gather ==
    /\ dispatch.stage = "running"
    /\ \A j \in 1..Len(dispatch.refs) : dispatch.refs[j].state = "done"
    /\ dispatch' = [dispatch EXCEPT
                       !.stage = "gathered",
                       !.results = RayGet(dispatch.refs, dispatch.done_order)]
    /\ UNCHANGED <<args, worker_env, pc, error, shared_pg, i, planVars, listVars,
                   placement_groups, remote_tasks, actors, proc, callVars, sync,
                   device>>

\* ActorInfo lists that do not describe the group the batch was dispatched
\* to: one actor's coordinates changed, or two entries exchanged.
InfoVariants(infos) ==
    {infos}
    \cup {[infos EXCEPT ![j].dp = d] :
             j \in 1..Len(infos), d \in 0..(infos[1].dp_size - 1)}
    \cup {[infos EXCEPT ![j].mp = 1 - infos[j].mp] :
             j \in {k \in 1..Len(infos) : infos[k].mp <= 1}}
    \cup {[infos EXCEPT ![j] = infos[k], ![k] = infos[j]] :
             j, k \in 1..Len(infos)}

\* The result list, or the result list with its last value missing.
ResultVariants(results) == {results, SubSeq(results, 1, Len(results) - 1)}

\* concatenate_outputs_after_mesh_dispatch(actor_infos, results)
Assemble(infos, results) ==
    /\ dispatch.stage = "gathered"
    /\ dispatch.mode = "mesh"
    /\ dispatch' =
          [dispatch EXCEPT
              !.stage = "assembled",
              !.collected_infos = infos,
              !.collected_results = results,
              !.output = concatenate_outputs_after_mesh_dispatch(infos, results)]
    /\ UNCHANGED <<args, worker_env, pc, error, shared_pg, i, planVars, listVars,
                   placement_groups, remote_tasks, actors, proc, callVars, sync,
                   device>>

NextDispatch ==
    \/ \E c \in 1..MaxShardLen, r \in 1..MaxShardLen : r <= c /\ Dispatch(c, r)
    \/ \E j \in 1..MaxActors, n \in {1, MaxShardLen} : ActorDone(j, n)
    \/ Gather
    \/ \E infos \in InfoVariants(dispatch.actor_infos),
          results \in ResultVariants(dispatch.results) : Assemble(infos, results)

DispatchSpec == InitDispatch /\ [][NextDispatch]_vars

-----------------------------------------------------------------------------
(***************************************************************************)
(* Properties of the dispatcher.                                           *)
(***************************************************************************)
GroupSize == Len(dispatch.actor_infos)
MadeBy(val, info) ==
    \A q \in 1..Len(val) : val[q].dp = info.dp /\ val[q].mp = info.mp

\* C11: a pass_through dispatch over K actors hands every actor the same
\* arguments and yields exactly K results; result j is the value actor j
\* returned, unchanged, whatever the order in which the actors finished and
\* whatever the sizes of their payloads.
C11_PassThroughInGroupOrder ==
    dispatch.mode = "pass_through" =>
        /\ dispatch.stage \in {"running", "gathered"} =>
              \A j \in 1..GroupSize :
                 dispatch.sent[j] = [q \in 1..SumSeq(dispatch.lens) |-> q]
        /\ dispatch.stage = "gathered" =>
              /\ Len(dispatch.results) = GroupSize
              /\ \A j \in 1..GroupSize :
                    /\ dispatch.results[j] = dispatch.refs[j].val
                    /\ dispatch.results[j] # <<>>
                    /\ MadeBy(dispatch.results[j], dispatch.actor_infos[j])

C11_Witness ==
    /\ dispatch.mode = "pass_through"
    /\ dispatch.stage = "gathered"
    /\ GroupSize = 4
    /\ dispatch.done_order = <<4, 2, 1, 3>>
    /\ Len(dispatch.results[1]) = 1
    /\ Len(dispatch.results[2]) = 2
    /\ Len(dispatch.results[4]) = 2

\* The output a mesh dispatch over chunks of the lengths lens has to give:
\* every batch position once, in order, each computed by the shard owner of
\* the data-parallel rank the position was routed to.
ExpectedOutput(lens) ==
    [p \in 1..SumSeq(lens) |->
        [pos |-> p, dp |-> (p - 1) \div lens[1], mp |-> 0]]

CollectedAsDispatched ==
    /\ dispatch.stage = "assembled"
    /\ dispatch.collected_infos = dispatch.actor_infos
    /\ dispatch.collected_results = dispatch.results

\* C12: after a mesh dispatch the assembled output holds exactly one shard
\* per data-parallel rank, the one of the rank's shard owner and none of the
\* other tensor / pipeline ranks, in ascending data-parallel rank; its length
\* is the sum of the shard lengths; and it is the same for every insertion
\* order of the actors.
C12_MeshOutputByDpRank ==
    CollectedAsDispatched =>
        /\ dispatch.output.err = None
        /\ dispatch.output.val = ExpectedOutput(dispatch.lens)
        /\ Len(dispatch.output.val) = SumSeq(dispatch.lens)
        /\ \A j \in 1..GroupSize :
              is_collection_dp_rank(dispatch.actor_infos[j]) =>
                 Len(dispatch.results[j]) =
                    dispatch.lens[dispatch.actor_infos[j].dp + 1]

C12_Witness ==
    /\ CollectedAsDispatched
    /\ GroupSize = 4
    /\ dispatch.actor_infos[1].dp_size = 2
    /\ dispatch.actor_infos[1] = [dp |-> 1, mp |-> 1, dp_size |-> 2]
    /\ dispatch.actor_infos[2] = [dp |-> 1, mp |-> 0, dp_size |-> 2]
    /\ dispatch.lens = <<2, 1>>
    /\ Len(dispatch.output.val) = 3

\* The ActorInfo list handed to the assembly does not fit the results: the
\* counts differ, a data-parallel rank has no or more than one shard owner,
\* or an owner's result is not the chunk of its rank.
InconsistentMapping(infos, results) ==
    \/ Len(infos) # Len(results)
    \/ \E d \in 0..(infos[1].dp_size - 1) :
          Cardinality({j \in 1..Len(infos) :
                          infos[j].dp = d /\ infos[j].mp = 0}) # 1
    \/ \E j \in 1..Len(infos) :
          /\ infos[j].mp = 0
          /\ [q \in 1..Len(results[j]) |-> results[j][q].pos]
                # Chunk(dispatch.lens, infos[j].dp)

\* C19: the assembly after a mesh dispatch fails with MeshDispatchError, and
\* returns no output, whenever the ActorInfo list is inconsistent with the
\* results.
C19_InconsistentMappingFails ==
    /\ dispatch.stage = "assembled"
    /\ InconsistentMapping(dispatch.collected_infos, dispatch.collected_results)
    => /\ dispatch.output.err = "MeshDispatchError"
       /\ dispatch.output.val = <<>>

C19_Witness ==
    /\ dispatch.stage = "assembled"
    /\ Len(dispatch.collected_infos) = Len(dispatch.collected_results)
    /\ \A d \in 0..(dispatch.collected_infos[1].dp_size - 1) :
          Cardinality(Owners(dispatch.collected_infos, d)) = 1
    /\ dispatch.collected_infos # dispatch.actor_infos
    /\ dispatch.output.err = "MeshDispatchError"

-----------------------------------------------------------------------------
(***************************************************************************)
(* Properties of the facade.                                               *)
(***************************************************************************)
\* The arguments the engine has to receive for the arguments the caller gave.
Forwarded(op, given) ==
    IF op = "init_weight_update_communicator" /\ Len(given) = 6
    THEN given \o <<FALSE>>
    ELSE given

Delegated(c) ==
    c.call = [actor |-> inference_engine_actors[c.replica],
              method |-> c.op,
              arg |-> Forwarded(c.op, c.given)]

\* C13: every facade operation is one remote call of the same name on the
\* actor the facade was constructed with, carrying the caller's arguments
\* unchanged (the communicator's seven fields in their order, with
\* override_existing false when left out), and hands the call's result or
\* error back as it is; the facade keeps no state but the actor handle and
\* never changes it.
C13_FacadeDelegatesOnce ==
    pc = "returned" =>
        /\ engines = [k \in 1..Len(inference_engine_actors) |->
                         [inference_engine_actor |-> inference_engine_actors[k]]]
        /\ \A c \in pending : Delegated(c)
        /\ last_done.op # None =>
              /\ Delegated(last_done)
              /\ last_done.result = last_done.raw
        /\ \A k \in 1..Len(engines) :
              tp_size(engines[k]) = ActorTpSize(inference_engine_actors[k])

C13_Witness ==
    /\ last_done.op = "init_weight_update_communicator"
    /\ last_done.replica = 2
    /\ last_done.given = <<1, 2, 1, 3, 1, 2>>
    /\ last_done.call.arg = <<1, 2, 1, 3, 1, 2, FALSE>>
    /\ last_done.call.actor = 2
    /\ last_done.result.err = None
    /\ \E c \in pending : c.op = "generate" /\ c.call.arg = <<1>>
    /\ tp_size(engines[1]).val = 1

\* C15: on each replica a communicator for a group name is created at most
\* once: a second init_weight_update_communicator with the same group name
\* and override_existing false creates nothing, and a new communicator takes
\* the place of the existing one only when override_existing is true.
GroupsOf(comm) == {x[1] : x \in comm}
Override(given) == Len(given) >= 7 /\ given[7]

C15_CommunicatorOncePerGroup ==
    /\ \A a \in 1..Len(proc) :
          \A x, y \in proc[a].comm : x[1] = y[1] => x = y
    /\ /\ last_done.op = "init_weight_update_communicator"
       /\ last_done.result.err = None
       => LET g == last_done.given[5]
              old == last_done.before.comm
              new == last_done.after.comm
          IN IF g \notin GroupsOf(old)
             THEN new = old \cup {<<g, 1>>}
             ELSE IF Override(last_done.given)
             THEN \E x \in old :
                     /\ x[1] = g
                     /\ new = (old \ {x}) \cup {<<g, x[2] + 1>>}
             ELSE new = old

C15_Witness ==
    /\ last_done.op = "init_weight_update_communicator"
    /\ ~Override(last_done.given)
    /\ last_done.result.err = None
    /\ last_done.before.comm = {<<1, 2>>}
    /\ last_done.after.comm = {<<1, 2>>}
    /\ issued = 3

-----------------------------------------------------------------------------
(***************************************************************************)
(* Failures during pool construction.                                      *)
(***************************************************************************)
PlacementTimedOut ==
    \E g \in 1..Len(placement_groups) :
        placement_groups[g].waited = PgReadyTimeout /\ ~placement_groups[g].ready

ActorNotCreated == \E a \in 1..Len(proc) : proc[a].state = "dead"

InitialSleepFailed ==
    \E k \in 1..Len(sleep_refs) : sleep_refs[k].state = "error"

ConstructionStepFailed ==
    PlacementTimedOut \/ ActorNotCreated \/ InitialSleepFailed

\* C14: when a step of pool construction fails (the placement group is not
\* ready within 30 s, an engine actor fails to be created, an initial sleep
\* fails), the call raises and returns no list of facades.
C14_FailedConstructionReturnsNothing ==
    ConstructionStepFailed => pc # "returned"

-----------------------------------------------------------------------------
(***************************************************************************)
(* Colocation: one {GPU: 1} bundle of the placement group the caller       *)
(* shares between the pool and its training actors.  The cluster scheduler *)
(* admits an actor onto the bundle when the share it asks for still fits;  *)
(* otherwise the actor waits.                                              *)
(***************************************************************************)
MaxRequests == 6

FracAdd(a, b) == Frac(a.num * b.den + b.num * a.den, a.den * b.den)
FracTimes(k, a) == Frac(k * a.num, a.den)
FracLE(a, b) == a.num * b.den <= b.num * a.den

\* The GPU a bundle holds.
BundleGPU == One

\* Shares the training side's actors ask for on a shared bundle.
TrainingShares == <<Frac(1, 5), Frac(1, 2)>>

\* lines 95-100, 125-128: what an engine actor of a colocated pool with
\* tensor_parallel_size 1 asks the scheduler for.
ColocatedEngineShare == NumGpus(1, UseHybridEngine(CallerPG))

Used(dev) ==
    FracAdd(FracTimes(dev.engines, ColocatedEngineShare),
            FracAdd(FracTimes(dev.training[1], TrainingShares[1]),
                    FracTimes(dev.training[2], TrainingShares[2])))

Requests(dev) ==
    dev.engines + dev.training[1] + dev.training[2]
    + dev.waiting[1] + dev.waiting[2] + dev.waiting[3]

Fits(dev, share) == FracLE(FracAdd(Used(dev), share), BundleGPU)

\* An engine actor is scheduled onto the bundle, or has to wait.
RequestEngine ==
    /\ Requests(device) < MaxRequests
    /\ device' = IF Fits(device, ColocatedEngineShare)
                 THEN [device EXCEPT !.engines = @ + 1]
                 ELSE [device EXCEPT !.waiting[1] = @ + 1]
    /\ UNCHANGED <<args, worker_env, pc, error, shared_pg, i, planVars, listVars,
                   placement_groups, remote_tasks, actors, proc, callVars, sync,
                   dispatch>>

\* A training actor asking for share number s is scheduled, or has to wait.
RequestTraining(s) ==
    /\ Requests(device) < MaxRequests
    /\ device' = IF Fits(device, TrainingShares[s])
                 THEN [device EXCEPT !.training[s] = @ + 1]
                 ELSE [device EXCEPT !.waiting[s + 1] = @ + 1]
    /\ UNCHANGED <<args, worker_env, pc, error, shared_pg, i, planVars, listVars,
                   placement_groups, remote_tasks, actors, proc, callVars, sync,
                   dispatch>>

InitPlace ==
    /\ IdlePool
    /\ NoSide

NextPlace ==
    \/ RequestEngine
    \/ \E s \in 1..Len(TrainingShares) : RequestTraining(s)

PlaceSpec == InitPlace /\ [][NextPlace]_vars

-----------------------------------------------------------------------------
(***************************************************************************)
(* Properties of the order of calls.                                       *)
(***************************************************************************)
Served(k) == trace[k].served

\* C17: when the caller awaits each facade call on a replica before it issues
\* the next call to that replica, the replica's engine serves the calls in
\* the order they were issued (an update_named_weight before the
\* reset_prefix_cache that follows it).
C17_AwaitedCallsInIssueOrder ==
    \A k \in 1..Len(trace) :
        trace[k].in_order =>
            \A m, n \in 1..Len(Served(k)) :
                m < n => Served(k)[m].seq < Served(k)[n].seq

C17_Witness ==
    /\ trace[1].in_order
    /\ Len(Served(1)) = 2
    /\ Served(1)[1].op = "update_named_weight"
    /\ Served(1)[2].op = "reset_prefix_cache"
    /\ Served(1)[1].seq = 1
    /\ Served(1)[2].seq = 3
    /\ Len(Served(2)) = 1

-----------------------------------------------------------------------------
(***************************************************************************)
(* The environment around the sglang import.                               *)
(***************************************************************************)
SglangTaskRan ==
    \E t \in 1..Len(remote_tasks) : remote_tasks[t] = "get_sglang_engine"

\* C18: CUDA_VISIBLE_DEVICES is changed for the import only: once the import
\* step is over, normally or not, the variable is in the state it had
\* before it (the same value if it was set, unset if it was unset).
C18_EnvironmentRestored ==
    SglangTaskRan => worker_env.now = worker_env.prior

-----------------------------------------------------------------------------
(***************************************************************************)
(* Properties of the handles given to init_weight_update_communicator.     *)
(***************************************************************************)
AcceptedInit ==
    /\ last_done.op = "init_weight_update_communicator"
    /\ last_done.result.err = None

-----------------------------------------------------------------------------
(***************************************************************************)
(* Properties of placement, continued.                                     *)
(***************************************************************************)
PlacementDecided == pc \in {"pg_wait", "loop"} \/ Constructed

\* The bundle indices replica a is tied to: the index its actor is pinned
\* to, and the indices handed to the engine.
TiedBundles(a) ==
    {actors[a].scheduling_strategy.placement_group_bundle_index}
        \cup BoundBundles(a)

\* C22: the call creates a placement group exactly when the caller supplied
\* none, whatever tensor_parallel_size is.  With a supplied group and
\* T > 1 no group is created and replica k is still bound to the bundle
\* indices k*T .. (k+1)*T - 1, now of the caller's group; all indices the
\* replicas are tied to exist in that group only if it has at least N*T
\* bundles.
C22_GroupCreatedIffNoneSupplied ==
    LET T == args.tensor_parallel_size
        N == args.num_inference_engines
    IN
    /\ args.shared_pg # NoPG => placement_groups = <<>>
    /\ PlacementDecided =>
          (Len(placement_groups) = 1 <=> args.shared_pg = NoPG)
    /\ (args.shared_pg # NoPG /\ T > 1) =>
          \A a \in 1..Len(actors) :
             /\ actors[a].scheduling_strategy.placement_group = args.shared_pg
             /\ actors[a].kw_bundle_indices
                    = SomeList([n \in 1..T |-> (a - 1) * T + n - 1])
    /\ (args.shared_pg # NoPG /\ Constructed) =>
          ((\A a \in 1..Len(actors) :
                TiedBundles(a) \subseteq 0..(args.shared_pg_bundles - 1))
             => args.shared_pg_bundles >= N * T)

C22_Witness ==
    /\ pc = "returned"
    /\ args.shared_pg = CallerPG
    /\ args.shared_pg_bundles = 4
    /\ args.tensor_parallel_size = 2
    /\ args.num_inference_engines = 2
    /\ placement_groups = <<>>
    /\ actors[2].scheduling_strategy.placement_group = CallerPG
    /\ actors[2].kw_bundle_indices.list = <<2, 3>>

\* C23: with or without a supplied group and for every T, the actor of
\* replica k (counted from 0) is pinned to bundle index k*T of the group
\* the pool is placed in, with child-task capture on; two replicas are never
\* pinned to the same index, and for T > 1 the pinned index is the first of
\* the replica's bundle_indices.
Pinned(a) == actors[a].scheduling_strategy.placement_group_bundle_index

C23_PinnedToFirstBundle ==
    LET T == args.tensor_parallel_size IN
    /\ \A a \in 1..Len(actors) :
          /\ actors[a].iteration = a - 1
          /\ Pinned(a) = actors[a].iteration * T
          /\ actors[a].scheduling_strategy.placement_group_capture_child_tasks
          /\ actors[a].scheduling_strategy.placement_group = shared_pg
          /\ T > 1 =>
                /\ actors[a].kw_bundle_indices.some
                /\ Pinned(a) = actors[a].kw_bundle_indices.list[1]
          /\ T = 1 => actors[a].kw_bundle_indices = NoList
    /\ \A a, b \in 1..Len(actors) : a # b => Pinned(a) # Pinned(b)

C23_Witness ==
    /\ pc = "returned"
    /\ args.backend = "sglang"
    /\ args.shared_pg = NoPG
    /\ args.tensor_parallel_size = 2
    /\ Len(actors) = 2
    /\ Pinned(1) = 0
    /\ Pinned(2) = 2
    /\ actors[2].kw_bundle_indices.list[1] = 2

-----------------------------------------------------------------------------
(***************************************************************************)
(* Properties of the initial sleep, continued.                             *)
(***************************************************************************)
\* An engine that runs and holds no GPU memory.
Asleep(a) == proc[a].state = "running" /\ ~proc[a].materialized

\* C24: construction issues sleep() only when all N actors were created and
\* wrapped, and then once to each replica.  Without
\* inference_engine_enable_sleep it issues no sleep() at all, and the pool
\* it returns has no replica asleep: every engine that started is awake.
C24_SleepOnlyAfterAllWrapped ==
    /\ sleep_refs # <<>> =>
          /\ args.inference_engine_enable_sleep
          /\ pc \in {"sleep_wait", "return", "returned", "raised"}
          /\ Len(actors) = args.num_inference_engines
          /\ Len(engines) = args.num_inference_engines
          /\ Len(sleep_refs) = Len(engines)
          /\ \A k \in Replicas : sleep_refs[k].actor = ActorOf(k)
          /\ \A j, k \in 1..Len(sleep_refs) :
                j # k => sleep_refs[j].actor # sleep_refs[k].actor
    /\ sleep_refs = <<>> => \A a \in 1..Len(proc) : ~Asleep(a)
    /\ ~args.inference_engine_enable_sleep =>
          /\ sleep_refs = <<>>
          /\ pc = "returned" =>
                \A k \in Replicas :
                   proc[ActorOf(k)].state = "running"
                       => proc[ActorOf(k)].materialized

C24_Witness ==
    /\ pc = "sleep_wait"
    /\ args.num_inference_engines = 2
    /\ Len(actors) = 2
    /\ Len(engines) = 2
    /\ Len(sleep_refs) = 2
    /\ sleep_refs[1].actor = ActorOf(1)
    /\ sleep_refs[2].actor = ActorOf(2)
    /\ Asleep(1)
    /\ sleep_refs[2].state = "pending"

-----------------------------------------------------------------------------
(***************************************************************************)
(* Properties of the actors' resource requests and seeds.                  *)
(***************************************************************************)
Colocated == args.shared_pg # NoPG

\* C25: every engine actor asks the scheduler for as many CPUs as GPUs:
\* 1 for T = 1 without a supplied group, 0.2 for T = 1 with one, and 0 for
\* T > 1 in both modes.  The num_gpus argument of the engine constructor is
\* 0.2 whenever a group is supplied, for T > 1 as well, and 1 otherwise.
C25_ResourceRequestByMode ==
    LET T == args.tensor_parallel_size IN
    \A a \in 1..Len(actors) :
       /\ actors[a].num_cpus = actors[a].num_gpus
       /\ (T = 1 /\ ~Colocated) => actors[a].num_gpus = Frac(1, 1)
       /\ (T = 1 /\ Colocated) => actors[a].num_gpus = Frac(1, 5)
       /\ T > 1 => actors[a].num_gpus = Frac(0, 1)
       /\ Colocated => actors[a].kw_num_gpus = Frac(1, 5)
       /\ ~Colocated => actors[a].kw_num_gpus = Frac(1, 1)

C25_Witness ==
    /\ pc = "returned"
    /\ args.backend = "sglang"
    /\ Colocated
    /\ args.tensor_parallel_size = 2
    /\ Len(actors) = 2
    /\ actors[2].num_cpus = Frac(0, 1)
    /\ actors[2].num_gpus = Frac(0, 1)
    /\ actors[2].kw_num_gpus = Frac(1, 5)

\* C26: with either backend the engine of replica k (counted from 0) is
\* constructed with seed + k, where seed is the configured seed: the seeds
\* of two replicas of a pool differ, and nothing but the configured seed and
\* the replica's index enters a replica's seed.
SeedOf(a) == actors[a].kw_seed

C26_SeedPlusIndex ==
    /\ \A a \in 1..Len(actors) : SeedOf(a) = args.seed + actors[a].iteration
    /\ \A k \in Replicas : SeedOf(ActorOf(k)) = args.seed + (k - 1)
    /\ \A a, b \in 1..Len(actors) : a # b => SeedOf(a) # SeedOf(b)

C26_Witness ==
    /\ pc = "returned"
    /\ args.backend = "sglang"
    /\ args.seed = 1
    /\ Len(engines) = 2
    /\ SeedOf(ActorOf(1)) = 1
    /\ SeedOf(ActorOf(2)) = 2

=============================================================================
